---- MODULE Spec2Model ----
(***************************************************************************)
(* A model of assets/js/particles.js: the ParticleSystem handle (options,  *)
(* particle collection, pointer state, running flag, pending frame         *)
(* callback), the Particle integrator, the proximity pass and the events   *)
(* the handle is bound to (resize, mousemove, mouseleave, visibilitychange,*)
(* intersection, frame callback).                                          *)
(*                                                                         *)
(* Numbers.  Lengths and velocities are fixed-point integers: one unit is  *)
(* 1/Scale of a pixel, and a product or quotient of the source is rounded  *)
(* to the nearest unit where the source rounds to the nearest double.      *)
(* Math.random() is a value k/RandDen, 0 <= k < RandDen (never 1).         *)
(* null is the empty tuple and a present value v is <<v>>, so that a       *)
(* nullable field can be compared with null.                               *)
(***************************************************************************)
EXTENDS Integers, Sequences, FiniteSets, TLC

\* ------------------------------------------------------------------ bounds
\* Ticks (runs of animate past its guard) a behaviour may hold.
MaxTicks == 3
\* Largest configured particleCount.
MaxCount == 1
\* Resolution of Math.random(): its values are k/RandDen, k in 0..RandDen-1.
RandDen == 2
\* Entries one IntersectionObserver callback may deliver.
MaxEntries == 2


\* --------------------------------------------------------------- constants
DefaultParticleCount == 80
DefaultParticleRadius == 2
DefaultLineDistance == 150
\* options.speed || 0.5, as SpeedNum/SpeedDen
DefaultSpeedNum == 1
DefaultSpeedDen == 2
DefaultMouseRadius == 200
\* vx *= 0.99
DampNum == 99
DampDen == 100
\* (Math.random() - 0.5) * 0.1, the 0.1 as 1/JitterDen
JitterDen == 10
\* force * 0.5, the 0.5 as 1/ForceDen
ForceDen == 2
\* maxSpeed = speed * 2
MaxSpeedFactor == 2
\* opacity * 0.8, in thousandths
OpacityMille == 800

\* ------------------------------------------------------------------- units
\* Units per pixel: the jitter's amplitude, 0.1 / 2 of a pixel, is two
\* units, so that a velocity smaller than the jitter is a velocity of the
\* model.
Scale == 4 * JitterDen
\* Container sizes getBoundingClientRect may report, <<width, height>> in
\* pixels.
RectSizes == { <<0, 0>>, <<1, 1>> }
\* Pointer coordinates mousemove may report, in units.
MouseCoords == {4}

\* ----------------------------------------------------------------- helpers
Null == <<>>
Some(v) == <<v>>
Val(o) == o[1]

Abs(a) == IF a < 0 THEN -a ELSE a
Min(a, b) == IF a < b THEN a ELSE b
Max(a, b) == IF a > b THEN a ELSE b

\* a / b rounded to the nearest integer (b > 0), halves away from zero.
RoundDiv(a, b) ==
  IF a >= 0 THEN (2 * a + b) \div (2 * b) ELSE -((2 * (-a) + b) \div (2 * b))

\* The largest r in lo .. hi with r*r <= n, for lo*lo <= n < (hi+1)*(hi+1).
RECURSIVE SqrtBetween(_, _, _)
SqrtBetween(n, lo, hi) ==
  IF lo = hi THEN lo
  ELSE LET mid == (lo + hi + 1) \div 2
       IN  IF mid * mid <= n THEN SqrtBetween(n, mid, hi)
           ELSE SqrtBetween(n, lo, mid - 1)

\* Math.sqrt on the grid: the largest r with r*r <= n (the search stops at
\* 46340, the largest r whose square is a 32-bit integer).
ISqrt(n) == SqrtBetween(n, 0, Min(n, 46340))

\* Math.random(): the numerators k of k/RandDen.
Randoms == 0 .. (RandDen - 1)

\* ----------------------------------------------------------------- options
\* The option bags a caller may pass: every bag names particleCount, speed,
\* particleRadius, lineDistance and mouseRadius (lengths in units) and
\* switches either showParticles or mouseInteraction off, leaving the other
\* to its default.
Speeds == {0, 1}
ParticleRadii == {0}
LineDistances == {8}
MouseRadii == {12}
SwitchBags == { [showParticles |-> FALSE], [mouseInteraction |-> FALSE] }
OptionBags ==
  { [particleCount |-> n, speed |-> sp, particleRadius |-> pr,
     lineDistance |-> ld, mouseRadius |-> mr] @@ sw :
      n \in 0 .. MaxCount, sp \in Speeds, pr \in ParticleRadii,
      ld \in LineDistances, mr \in MouseRadii, sw \in SwitchBags }

\* Strings are sequences of one-character strings.
\* 'rgba(206, 66, 43, 0.15)', the default of options.lineColor
DefaultLineColor ==
  << "r", "g", "b", "a", "(", "2", "0", "6", ",", " ", "6", "6", ",", " ", "4", "3", ",", " ",
     "0", ".", "1", "5", ")" >>

\* options.k || d for a numeric option: d when k is absent or 0.
OrDefault(o, k, d) == IF k \in DOMAIN o /\ o[k] # 0 THEN o[k] ELSE d

\* The defaults object literal, before ...options is spread over it.
DefaultOptions(o) ==
  [ particleCount    |-> OrDefault(o, "particleCount", DefaultParticleCount),
    particleRadius   |-> OrDefault(o, "particleRadius", DefaultParticleRadius * Scale),
    lineDistance     |-> OrDefault(o, "lineDistance", DefaultLineDistance * Scale),
    speed            |-> OrDefault(o, "speed", RoundDiv(DefaultSpeedNum * Scale, DefaultSpeedDen)),
    lineColor        |-> IF "lineColor" \in DOMAIN o /\ o["lineColor"] # << >>
                         THEN o["lineColor"] ELSE DefaultLineColor,
    mouseInteraction |-> ~("mouseInteraction" \in DOMAIN o /\ o["mouseInteraction"] = FALSE),
    mouseRadius      |-> OrDefault(o, "mouseRadius", DefaultMouseRadius * Scale) ]

\* this.options: the defaults with every key of the bag spread over them.
SpreadOptions(o) ==
  LET d == DefaultOptions(o)
  IN  [k \in (DOMAIN d) \cup (DOMAIN o) |-> IF k \in DOMAIN o THEN o[k] ELSE d[k]]

\* this.options.showParticles !== false
ShowParticles(opt) ==
  ~("showParticles" \in DOMAIN opt /\ opt["showParticles"] = FALSE)

\* ---------------------------------------------------------------- Particle
\* Mutant: the loop runs while i <= particleCount.
SeedLoopCountInclusive(n) == IF n >= 0 THEN n + 1 ELSE 0

\* Iterations of `for (let i = 0; i < particleCount; i++)`.
SeedLoopCount(n) == IF n > 0 THEN n ELSE 0

\* The five Math.random() draws of one Particle constructor.
SeedDraws == Randoms \X Randoms \X Randoms \X Randoms \X Randoms
\* The two Math.random() draws of one Particle.update.
TickDraws == Randoms \X Randoms

\* Mutant: the draw is not halved, (2 * Math.random() - 1) * speed.
SeedVelocityDouble(k, speed) == RoundDiv((2 * k - RandDen) * speed, RandDen)

\* (Math.random() - 0.5) * speed
SeedVelocity(k, speed) == RoundDiv((2 * k - RandDen) * speed, 2 * RandDen)

\* new Particle(system), with draws r, on a w x h canvas (units).
NewParticle(w, h, opt, r) ==
  LET rad == RoundDiv(r[5] * opt.particleRadius, RandDen) + Scale
  IN  [ x  |-> RoundDiv(r[1] * w, RandDen),
        y  |-> RoundDiv(r[2] * h, RandDen),
        vx |-> SeedVelocity(r[3], opt.speed),
        vy |-> SeedVelocity(r[4], opt.speed),
        radius |-> rad,
        originalRadius |-> rad ]

\* (Math.random() - 0.5) * 0.1
Jitter(k) == RoundDiv((2 * k - RandDen) * Scale, 2 * RandDen * JitterDen)

\* v * 0.99
Damp(v) == RoundDiv(v * DampNum, DampDen)

\* Mutant: the lower limit is forgotten.
ClampSpeedUpperOnly(v, maxSpeed) == Min(maxSpeed, v)

\* Math.max(-maxSpeed, Math.min(maxSpeed, v))
ClampSpeed(v, maxSpeed) == Max(-maxSpeed, Min(maxSpeed, v))

\* Mutant: the pointer block does not consult options.mouseInteraction.
PointerForceAlways(p, mouse, opt) ==
  IF mouse.x # Null
  THEN LET dx == p.x - Val(mouse.x)
           dy == p.y - Val(mouse.y)
           distance == ISqrt(dx * dx + dy * dy)
       IN  IF distance < mouse.radius
           THEN [p EXCEPT
                   !.vx = @ + RoundDiv((IF distance = 0 THEN 1 ELSE dx)
                                         * (mouse.radius - distance) * Scale,
                                       (IF distance = 0 THEN 1 ELSE distance)
                                         * mouse.radius * ForceDen),
                   !.radius = RoundDiv(p.originalRadius
                                         * (2 * mouse.radius - distance),
                                       mouse.radius)]
           ELSE [p EXCEPT !.radius = p.originalRadius]
  ELSE p

\* Mutant: the force pulls the particle towards the pointer.
PointerForceInward(p, mouse, opt) ==
  IF mouse.x # Null /\ opt.mouseInteraction
  THEN LET dx == p.x - Val(mouse.x)
           dy == p.y - Val(mouse.y)
           distance == ISqrt(dx * dx + dy * dy)
       IN  IF distance < mouse.radius
           THEN [p EXCEPT
                   !.vx = @ - RoundDiv((IF distance = 0 THEN 1 ELSE dx)
                                         * (mouse.radius - distance) * Scale,
                                       (IF distance = 0 THEN 1 ELSE distance)
                                         * mouse.radius * ForceDen),
                   !.vy = @ - RoundDiv((IF distance = 0 THEN 0 ELSE dy)
                                         * (mouse.radius - distance) * Scale,
                                       (IF distance = 0 THEN 1 ELSE distance)
                                         * mouse.radius * ForceDen),
                   !.radius = RoundDiv(p.originalRadius
                                         * (2 * mouse.radius - distance),
                                       mouse.radius)]
           ELSE [p EXCEPT !.radius = p.originalRadius]
  ELSE p

\* Mutant: the inflated radius is stored as the original radius as well.
PointerForceRebase(p, mouse, opt) ==
  IF mouse.x # Null /\ opt.mouseInteraction
  THEN LET dx == p.x - Val(mouse.x)
           dy == p.y - Val(mouse.y)
           distance == ISqrt(dx * dx + dy * dy)
       IN  IF distance < mouse.radius
           THEN LET \* force = (radius - distance) / radius, kept as a fraction
                    fnum == mouse.radius - distance
                    fden == mouse.radius
                    \* Math.cos(atan2(dy, dx)) = dx / distance; atan2(0, 0) = 0
                    cnum == IF distance = 0 THEN 1 ELSE dx
                    snum == IF distance = 0 THEN 0 ELSE dy
                    cden == IF distance = 0 THEN 1 ELSE distance
                IN  [p EXCEPT
                       !.vx = @ + RoundDiv(cnum * fnum * Scale, cden * fden * ForceDen),
                       !.vy = @ + RoundDiv(snum * fnum * Scale, cden * fden * ForceDen),
                       !.radius = RoundDiv(p.originalRadius * (fden + fnum), fden),
                       !.originalRadius = RoundDiv(p.originalRadius * (fden + fnum), fden)]
           ELSE [p EXCEPT !.radius = p.originalRadius]
  ELSE p

\* Mutant: the force is not halved.
PointerForceFull(p, mouse, opt) ==
  IF mouse.x # Null /\ opt.mouseInteraction
  THEN LET dx == p.x - Val(mouse.x)
           dy == p.y - Val(mouse.y)
           distance == ISqrt(dx * dx + dy * dy)
       IN  IF distance < mouse.radius
           THEN LET \* force = (radius - distance) / radius, kept as a fraction
                    fnum == mouse.radius - distance
                    fden == mouse.radius
                    \* Math.cos(atan2(dy, dx)) = dx / distance; atan2(0, 0) = 0
                    cnum == IF distance = 0 THEN 1 ELSE dx
                    snum == IF distance = 0 THEN 0 ELSE dy
                    cden == IF distance = 0 THEN 1 ELSE distance
                IN  [p EXCEPT
                       !.vx = @ + RoundDiv(cnum * fnum * Scale, cden * fden),
                       !.vy = @ + RoundDiv(snum * fnum * Scale, cden * fden),
                       !.radius = RoundDiv(p.originalRadius * (fden + fnum), fden)]
           ELSE [p EXCEPT !.radius = p.originalRadius]
  ELSE p

\* The pointer block of update: the particle with the force added to its
\* velocity and its radius inflated or restored.
PointerForce(p, mouse, opt) ==
  IF mouse.x # Null /\ opt.mouseInteraction
  THEN LET dx == p.x - Val(mouse.x)
           dy == p.y - Val(mouse.y)
           distance == ISqrt(dx * dx + dy * dy)
       IN  IF distance < mouse.radius
           THEN LET \* force = (radius - distance) / radius, kept as a fraction
                    fnum == mouse.radius - distance
                    fden == mouse.radius
                    \* Math.cos(atan2(dy, dx)) = dx / distance; atan2(0, 0) = 0
                    cnum == IF distance = 0 THEN 1 ELSE dx
                    snum == IF distance = 0 THEN 0 ELSE dy
                    cden == IF distance = 0 THEN 1 ELSE distance
                IN  [p EXCEPT
                       !.vx = @ + RoundDiv(cnum * fnum * Scale, cden * fden * ForceDen),
                       !.vy = @ + RoundDiv(snum * fnum * Scale, cden * fden * ForceDen),
                       !.radius = RoundDiv(p.originalRadius * (fden + fnum), fden)]
           ELSE [p EXCEPT !.radius = p.originalRadius]
  ELSE p

\* Mutant: the position moves by the velocity the clamp has left.
IntegrateMoveLast(p, opt, r) ==
  LET maxSpeed == opt.speed * MaxSpeedFactor
      nvx == ClampSpeed(Damp(p.vx) + Jitter(r[1]), maxSpeed)
      nvy == ClampSpeed(Damp(p.vy) + Jitter(r[2]), maxSpeed)
  IN  [p EXCEPT !.x = @ + nvx, !.y = @ + nvy, !.vx = nvx, !.vy = nvy]

\* Position integration, damping, jitter and the speed clamp.
Integrate(p, opt, r) ==
  LET maxSpeed == opt.speed * MaxSpeedFactor
  IN  [p EXCEPT
         !.x = @ + p.vx,
         !.y = @ + p.vy,
         !.vx = ClampSpeed(Damp(p.vx) + Jitter(r[1]), maxSpeed),
         !.vy = ClampSpeed(Damp(p.vy) + Jitter(r[2]), maxSpeed)]

\* Mutant: the velocity is inverted but the position is not clamped.
ReflectNoClamp(pos, vel, limit) ==
  IF pos < 0 \/ pos > limit THEN <<pos, -vel>> ELSE <<pos, vel>>

\* The boundary collision of one axis: <<position, velocity>>.
Reflect(pos, vel, limit) ==
  IF pos < 0 \/ pos > limit
  THEN <<Max(0, Min(limit, pos)), -vel>>
  ELSE <<pos, vel>>

\* The boundary collision of both axes on a w x h canvas.
Collide(q, w, h) ==
  LET bx == Reflect(q.x, q.vx, w)
      by == Reflect(q.y, q.vy, h)
  IN  [q EXCEPT !.x = bx[1], !.vx = bx[2], !.y = by[1], !.vy = by[2]]

\* Particle.update() with the pointer `mouse`, on a w x h canvas, draws r:
\* the pointer block, then the integration, then the collision, each stage
\* reading the particle the stage before it left.
update(p, mouse, opt, w, h, r) ==
  CHOOSE u \in { Collide(q, w, h) :
                   q \in { Integrate(f, opt, r) :
                             f \in { PointerForce(p, mouse, opt) } } } : TRUE

\* ----------------------------------------------------------- ParticleSystem
\* A handle h is the record of the ParticleSystem's fields (options,
\* particles, animationId, isRunning, mouse, the canvas width and height in
\* units) together with what the host holds for it: rafPending, the ids of
\* the frame callbacks requested and neither run nor cancelled, and rafNext,
\* the id the next requestAnimationFrame returns.  ticks counts the runs of
\* animate past its guard, and frame lists what the last of them drew.

\* Mutant: resize() also stops the loop.
resizeAndStop(h, rect) ==
  [h EXCEPT !.width = rect[1] * Scale, !.height = rect[2] * Scale,
            !.frame = << >>, !.isRunning = FALSE,
            !.rafPending = {}, !.animationId = Null]

\* resize(): the canvas takes the container's size (rect = <<width, height>>
\* in pixels); assigning canvas.width clears the bitmap.
\* With this.canvas null, this.canvas.parentElement raises a TypeError.
resize(h, rect) ==
  IF h.canvas = Null THEN [h EXCEPT !.raised = @ \cup {"TypeError"}]
  ELSE [h EXCEPT !.width = rect[1] * Scale, !.height = rect[2] * Scale,
                 !.frame = << >>]

\* Mutant: createParticles() pushes onto the collection it finds.
createParticlesAppend(h, seeds) ==
  [h EXCEPT !.particles = @ \o
     [i \in 1 .. Len(seeds) |-> NewParticle(h.width, h.height, h.options, seeds[i])]]

\* createParticles(), seeds[i] the draws of the i-th constructor.  With
\* this.options undefined, the loop test raises a TypeError once
\* this.particles = [] has run.
createParticles(h, seeds) ==
  IF h.options = Null
  THEN [h EXCEPT !.particles = << >>, !.raised = @ \cup {"TypeError"}]
  ELSE [h EXCEPT !.particles =
          [i \in 1 .. Len(seeds) |->
             NewParticle(h.width, h.height, h.options, seeds[i])]]

\* The draws createParticles consumes under options opt.
SeedLists(opt) ==
  IF opt = Null THEN { << >> }
  ELSE [1 .. SeedLoopCount(opt.particleCount) -> SeedDraws]

\* Mutant: draw() does not consult options.showParticles.
drawAlways(p, i, opt) ==
  << [op |-> "arc", i |-> i, x |-> p.x, y |-> p.y, radius |-> p.radius] >>

\* Particle.draw()
draw(p, i, opt) ==
  IF ShowParticles(opt)
  THEN << [op |-> "arc", i |-> i, x |-> p.x, y |-> p.y, radius |-> p.radius] >>
  ELSE << >>

\* The (i, j) the two loops of connectParticles visit, in order.
RECURSIVE PairsFrom(_, _, _)
PairsFrom(i, j, n) ==
  IF i > n THEN << >>
  ELSE IF j > n THEN PairsFrom(i + 1, i + 2, n)
  ELSE << <<i, j>> >> \o PairsFrom(i, j + 1, n)

\* Mutant: the inner loop starts at the first particle and skips only i, so
\* every pair is visited in both orders.
LoopPairsBoth(n) ==
  LET Row(i) == [k \in 1 .. (n - 1) |-> <<i, IF k < i THEN k ELSE k + 1>>]
      RECURSIVE Rows(_)
      Rows(i) == IF i > n THEN << >> ELSE Row(i) \o Rows(i + 1)
  IN  Rows(1)

LoopPairs(n) == PairsFrom(1, 2, n)

\* Math.sqrt(dx * dx + dy * dy) of two particles.
Distance(a, b) == ISqrt((a.x - b.x) * (a.x - b.x) + (a.y - b.y) * (a.y - b.y))

\* Mutant: the opacity grows with the distance.
EdgeOpacityGrowing(d, lineDistance) ==
  RoundDiv(d * OpacityMille, lineDistance)

\* Mutant: the opacity is not scaled by 0.8.
EdgeOpacityUnscaled(d, lineDistance) ==
  RoundDiv((lineDistance - d) * 1000, lineDistance)

\* opacity * 0.8 with opacity = 1 - distance / lineDistance, in thousandths.
EdgeOpacity(d, lineDistance) ==
  RoundDiv((lineDistance - d) * OpacityMille, lineDistance)

\* A character of the class [\d.]
NumChar(c) == c \in {"0", "1", "2", "3", "4", "5", "6", "7", "8", "9", "."}

\* The text of a decimal digit.
DigitChar(d) == << "0", "1", "2", "3", "4", "5", "6", "7", "8", "9" >>[d + 1]

\* The decimal text of a natural number.
RECURSIVE NatToString(_)
NatToString(n) ==
  IF n < 10 THEN << DigitChar(n) >>
  ELSE NatToString(n \div 10) \o << DigitChar(n % 10) >>

\* opacity * 0.8 + '': the decimal text of a number given in thousandths,
\* without trailing zeros.
NumberToString(mille) ==
  LET a == (mille \div 100) % 10
      b == (mille \div 10) % 10
      c == mille % 10
  IN  NatToString(mille \div 1000) \o
      (IF c # 0 THEN << ".", DigitChar(a), DigitChar(b), DigitChar(c) >>
       ELSE IF b # 0 THEN << ".", DigitChar(a), DigitChar(b) >>
       ELSE IF a # 0 THEN << ".", DigitChar(a) >>
       ELSE << >>)

\* Where the leftmost match of /[\d.]+\)$/ in s begins, 0 when there is
\* none: the start of the run of [\d.] characters that ends just before a
\* closing parenthesis at the end of the string.
RECURSIVE RunStart(_, _)
RunStart(s, k) == IF k > 1 /\ NumChar(s[k - 1]) THEN RunStart(s, k - 1) ELSE k
MatchStart(s) ==
  IF Len(s) >= 2 /\ s[Len(s)] = ")" /\ NumChar(s[Len(s) - 1])
  THEN RunStart(s, Len(s) - 1)
  ELSE 0

\* lineColor.replace(/[\d.]+\)$/, opacity * 0.8 + ')')
StrokeStyle(lineColor, mille) ==
  IF MatchStart(lineColor) = 0 THEN lineColor
  ELSE SubSeq(lineColor, 1, MatchStart(lineColor) - 1)
         \o NumberToString(mille) \o << ")" >>

\* Mutant: a pair at exactly lineDistance is connected too.
connectParticlesInclusive(ps, opt) ==
  LET Near(pr) == Distance(ps[pr[1]], ps[pr[2]]) <= opt.lineDistance
      near == SelectSeq(LoopPairs(Len(ps)), Near)
  IN  [k \in 1 .. Len(near) |->
         LET a == ps[near[k][1]]
             b == ps[near[k][2]]
         IN  [op |-> "line", i |-> near[k][1], j |-> near[k][2],
              x1 |-> a.x, y1 |-> a.y, x2 |-> b.x, y2 |-> b.y,
              opacity |-> EdgeOpacity(Distance(a, b), opt.lineDistance),
              strokeStyle |-> StrokeStyle(opt.lineColor,
                                EdgeOpacity(Distance(a, b), opt.lineDistance))]]

\* connectParticles(): the lines stroked, in order.
connectParticles(ps, opt) ==
  LET Near(pr) == Distance(ps[pr[1]], ps[pr[2]]) < opt.lineDistance
      near == SelectSeq(LoopPairs(Len(ps)), Near)
  IN  [k \in 1 .. Len(near) |->
         LET a == ps[near[k][1]]
             b == ps[near[k][2]]
         IN  [op |-> "line", i |-> near[k][1], j |-> near[k][2],
              x1 |-> a.x, y1 |-> a.y, x2 |-> b.x, y2 |-> b.y,
              opacity |-> EdgeOpacity(Distance(a, b), opt.lineDistance),
              strokeStyle |-> StrokeStyle(opt.lineColor,
                                EdgeOpacity(Distance(a, b), opt.lineDistance))]]

\* The arcs of particles i..n as the forEach of animate draws them.
RECURSIVE Arcs(_, _, _)
Arcs(ps, i, opt) ==
  IF i > Len(ps) THEN << >> ELSE draw(ps[i], i, opt) \o Arcs(ps, i + 1, opt)

\* The id requestAnimationFrame returns.
RequestId(h) == h.rafNext

\* Mutant: the tick does not request the next frame.
animateOnce(h, rnd) ==
  IF ~h.isRunning THEN h
  ELSE LET ps == [i \in 1 .. Len(h.particles) |->
                    update(h.particles[i], h.mouse, h.options, h.width, h.height, rnd[i])]
       IN  [h EXCEPT
              !.particles = ps,
              !.frame = << [op |-> "clearRect"] >> \o Arcs(ps, 1, h.options)
                          \o connectParticles(ps, h.options),
              !.ticks = @ + 1]

\* Mutant: the connections are drawn before the particles.
animateEdgesFirst(h, rnd) ==
  IF ~h.isRunning THEN h
  ELSE LET id == RequestId(h)
       IN  CHOOSE g \in
             { [h EXCEPT
                  !.particles = ps,
                  !.frame = << [op |-> "clearRect"] >>
                              \o connectParticles(ps, h.options)
                              \o Arcs(ps, 1, h.options),
                  !.ticks = @ + 1,
                  !.animationId = Some(id),
                  !.rafPending = @ \cup {id},
                  !.rafNext = id + 1] :
               ps \in { [i \in 1 .. Len(h.particles) |->
                          update(h.particles[i], h.mouse, h.options,
                                 h.width, h.height, rnd[i])] } } : TRUE

\* Mutant: every particle is drawn before it is updated.
animateDrawFirst(h, rnd) ==
  IF ~h.isRunning THEN h
  ELSE LET id == RequestId(h)
       IN  CHOOSE g \in
             { [h EXCEPT
                  !.particles = ps,
                  !.frame = << [op |-> "clearRect"] >>
                              \o Arcs(h.particles, 1, h.options)
                              \o connectParticles(ps, h.options),
                  !.ticks = @ + 1,
                  !.animationId = Some(id),
                  !.rafPending = @ \cup {id},
                  !.rafNext = id + 1] :
               ps \in { [i \in 1 .. Len(h.particles) |->
                          update(h.particles[i], h.mouse, h.options,
                                 h.width, h.height, rnd[i])] } } : TRUE

\* Mutant: the connections are computed from the particles as the tick
\* found them.
animateStaleEdges(h, rnd) ==
  IF ~h.isRunning THEN h
  ELSE LET id == RequestId(h)
       IN  CHOOSE g \in
             { [h EXCEPT
                  !.particles = ps,
                  !.frame = << [op |-> "clearRect"] >> \o Arcs(ps, 1, h.options)
                              \o connectParticles(h.particles, h.options),
                  !.ticks = @ + 1,
                  !.animationId = Some(id),
                  !.rafPending = @ \cup {id},
                  !.rafNext = id + 1] :
               ps \in { [i \in 1 .. Len(h.particles) |->
                          update(h.particles[i], h.mouse, h.options,
                                 h.width, h.height, rnd[i])] } } : TRUE

\* animate(), rnd[i] the draws of the i-th particle's update.
\* ps is the particle list once every particle has been updated; the arcs
\* and the lines are drawn from it.  Without a canvas this.ctx is undefined
\* and this.ctx.clearRect raises a TypeError.
animate(h, rnd) ==
  IF ~h.isRunning THEN h
  ELSE IF h.canvas # Some("canvas")
  THEN [h EXCEPT !.raised = @ \cup {"TypeError"}]
  ELSE LET id == RequestId(h)
       IN  CHOOSE g \in
             { [h EXCEPT
                  !.particles = ps,
                  !.frame = << [op |-> "clearRect"] >> \o Arcs(ps, 1, h.options)
                              \o connectParticles(ps, h.options),
                  !.ticks = @ + 1,
                  !.animationId = Some(id),
                  !.rafPending = @ \cup {id},
                  !.rafNext = id + 1] :
               ps \in { [i \in 1 .. Len(h.particles) |->
                          update(h.particles[i], h.mouse, h.options,
                                 h.width, h.height, rnd[i])] } } : TRUE

\* Mutant: start() does not test the flag.
startUnguarded(h, rnd) == animate([h EXCEPT !.isRunning = TRUE], rnd)

\* Mutant: start() sets the flag and never calls animate().
startFlagOnly(h, rnd) ==
  IF h.isRunning THEN h ELSE [h EXCEPT !.isRunning = TRUE]

\* Mutant: start() hands the first tick to requestAnimationFrame.
startDeferred(h, rnd) ==
  IF h.isRunning THEN h
  ELSE [h EXCEPT !.isRunning = TRUE,
                 !.animationId = Some(h.rafNext),
                 !.rafPending = @ \cup {h.rafNext},
                 !.rafNext = @ + 1]

\* start()
start(h, rnd) ==
  IF h.isRunning THEN h ELSE animate([h EXCEPT !.isRunning = TRUE], rnd)

\* cancelAnimationFrame(id)
CancelFrame(pending, id) == pending \ {id}

\* Mutant: stop() clears the flag and leaves the frame callback pending.
stopNoCancel(h) == [h EXCEPT !.isRunning = FALSE]

\* Mutant: stop() cancels the frame callback and leaves the flag set.
stopKeepFlag(h) ==
  IF h.animationId # Null
  THEN [h EXCEPT !.rafPending = CancelFrame(@, Val(h.animationId)),
                 !.animationId = Null]
  ELSE h

\* Mutant: stop() cancels the frame callback and keeps its id.
stopKeepId(h) ==
  IF h.animationId # Null
  THEN [h EXCEPT !.isRunning = FALSE,
                 !.rafPending = @ \ {Val(h.animationId)}]
  ELSE [h EXCEPT !.isRunning = FALSE]

\* stop()
stop(h) ==
  IF h.animationId # Null
  THEN [h EXCEPT !.isRunning = FALSE,
                 !.rafPending = CancelFrame(@, Val(h.animationId)),
                 !.animationId = Null]
  ELSE [h EXCEPT !.isRunning = FALSE]

\* The draws one run of animate consumes on handle h.
TickLists(h) == [1 .. Len(h.particles) -> TickDraws]

\* The IntersectionObserver callback: entries.forEach(start or stop).  rnds
\* holds the draws of the ticks it runs, in order.
RECURSIVE observe(_, _, _)
observe(h, entries, rnds) ==
  IF entries = << >> THEN h
  ELSE IF Head(entries)
       THEN IF h.isRunning
            THEN observe(h, Tail(entries), rnds)
            ELSE observe(start(h, Head(rnds)), Tail(entries), Tail(rnds))
       ELSE observe(stop(h), Tail(entries), rnds)

\* The ticks observe runs on a handle whose running flag is `running`.
RECURSIVE StartsIn(_, _)
StartsIn(running, entries) ==
  IF entries = << >> THEN 0
  ELSE IF Head(entries)
       THEN (IF running THEN 0 ELSE 1) + StartsIn(TRUE, Tail(entries))
       ELSE StartsIn(FALSE, Tail(entries))

\* The fields the constructor sets before init().
Fresh(bag) ==
  LET opt == SpreadOptions(bag)
  IN  [ options |-> opt, particles |-> << >>, animationId |-> Null,
        isRunning |-> FALSE,
        mouse |-> [x |-> Null, y |-> Null, radius |-> opt.mouseRadius],
        width |-> 0, height |-> 0,
        rafPending |-> {}, rafNext |-> 1, ticks |-> 0, frame |-> << >>,
        canvas |-> Some("canvas"), listeners |-> {}, raised |-> {} ]

\* The handle the constructor leaves when it sets this.canvas to cv and
\* nothing else: every other field is undefined.
Inert(cv) ==
  [ options |-> Null, particles |-> << >>, animationId |-> Null,
    isRunning |-> FALSE, mouse |-> Null, width |-> 0, height |-> 0,
    rafPending |-> {}, rafNext |-> 1, ticks |-> 0, frame |-> << >>,
    canvas |-> cv, listeners |-> {}, raised |-> {} ]

\* bindEvents(): the listeners are added in the order resize, mousemove and
\* mouseleave (when options.mouseInteraction), visibilitychange; then
\* `new IntersectionObserver` raises a ReferenceError on a host that does
\* not define it (observerApi false).
bindEvents(h, observerApi) ==
  LET bound == {"resize", "visibilitychange"} \cup
               (IF h.options.mouseInteraction
                THEN {"mousemove", "mouseleave"} ELSE {})
  IN  IF observerApi
      THEN [h EXCEPT !.listeners = bound \cup {"intersection"}]
      ELSE [h EXCEPT !.listeners = bound, !.raised = @ \cup {"ReferenceError"}]

\* Mutant: init() does not call start().
initNoStart(h, rect, seeds, rnd, observerApi) ==
  bindEvents(createParticles(resize(h, rect), seeds), observerApi)

\* init(): resize, createParticles, bindEvents, start; an exception
\* bindEvents raises ends it.
init(h, rect, seeds, rnd, observerApi) ==
  LET b == bindEvents(createParticles(resize(h, rect), seeds), observerApi)
  IN  IF b.raised # {} THEN b ELSE start(b, rnd)

\* The elements document.getElementById may return: none, a canvas, an
\* element that is no canvas.
Canvases == { Null, Some("canvas"), Some("div") }

\* new ParticleSystem(canvasId, bag), document.getElementById(canvasId)
\* being cv: without an element the constructor returns at once; on an
\* element without getContext it raises a TypeError.
ParticleSystem(cv, bag, rect, seeds, rnd, observerApi) ==
  IF cv = Null THEN Inert(cv)
  ELSE IF cv # Some("canvas") THEN [Inert(cv) EXCEPT !.raised = {"TypeError"}]
  ELSE init(Fresh(bag), rect, seeds, rnd, observerApi)

\* ------------------------------------------------------------------- state
VARIABLES
  options,        \* this.options
  particles,      \* this.particles
  animationId,    \* this.animationId: Null or Some(id)
  isRunning,      \* this.isRunning
  mouse,          \* this.mouse: [x, y, radius]
  width, height,  \* this.canvas.width, this.canvas.height (units)
  rafPending,     \* host: frame callbacks requested, not yet run or cancelled
  rafNext,        \* host: the id of the next frame callback request
  ticks,          \* runs of animate past its guard
  frame,          \* what is on the canvas: the draw calls since it was cleared
  canvas,         \* this.canvas: Null or Some(element kind)
  listeners,      \* the listeners bindEvents has added for this system
  raised,         \* the errors the system's code has raised and not caught
  created,        \* the constructor returned: the caller holds the handle
  resizeTimeout,  \* bindEvents' resizeTimeout: Null or Some(timer id)
  timers,         \* host: the active debounce timers
  docHidden,      \* document.hidden
  isIntersecting, \* the last entry the observer delivered: Null or Some(b)
  pristine        \* no event has been delivered and no method called yet

vars == << options, particles, animationId, isRunning, mouse, width, height,
           rafPending, rafNext, ticks, frame, canvas, listeners, raised,
           created, resizeTimeout, timers, docHidden, isIntersecting,
           pristine >>

envVars == << created, resizeTimeout, timers, docHidden, isIntersecting >>

\* The handle of the current state.
Handle ==
  [ options |-> options, particles |-> particles, animationId |-> animationId,
    isRunning |-> isRunning, mouse |-> mouse, width |-> width,
    height |-> height, rafPending |-> rafPending, rafNext |-> rafNext,
    ticks |-> ticks, frame |-> frame, canvas |-> canvas,
    listeners |-> listeners, raised |-> raised ]

\* The next state holds handle h.
Install(h) ==
  /\ options' = h.options
  /\ particles' = h.particles
  /\ animationId' = h.animationId
  /\ isRunning' = h.isRunning
  /\ mouse' = h.mouse
  /\ width' = h.width
  /\ height' = h.height
  /\ rafPending' = h.rafPending
  /\ rafNext' = h.rafNext
  /\ ticks' = h.ticks
  /\ frame' = h.frame
  /\ canvas' = h.canvas
  /\ listeners' = h.listeners
  /\ raised' = h.raised

\* new ParticleSystem(canvasId, bag) on an existing canvas, on a host that
\* defines IntersectionObserver, in a document that is hidden or not; no
\* event has been delivered yet.
Init ==
  \E bag \in OptionBags, rect \in RectSizes :
    \E seeds \in SeedLists(SpreadOptions(bag)) :
      \E rnd \in [1 .. Len(seeds) -> TickDraws] :
        LET h == ParticleSystem(Some("canvas"), bag, rect, seeds, rnd, TRUE)
        IN  /\ options = h.options
            /\ particles = h.particles
            /\ animationId = h.animationId
            /\ isRunning = h.isRunning
            /\ mouse = h.mouse
            /\ width = h.width
            /\ height = h.height
            /\ rafPending = h.rafPending
            /\ rafNext = h.rafNext
            /\ ticks = h.ticks
            /\ frame = h.frame
            /\ canvas = h.canvas
            /\ listeners = h.listeners
            /\ raised = h.raised
            /\ created = TRUE
            /\ resizeTimeout = Null
            /\ timers = {}
            /\ docHidden \in BOOLEAN
            /\ isIntersecting = Null
            /\ pristine = TRUE

\* ------------------------------------------------------------------ events
\* The host runs the frame callback id: () => this.animate().
FrameCallback ==
  /\ UNCHANGED envVars
  /\ pristine' = FALSE
  /\ \E id \in rafPending :
       \E rnd \in TickLists(Handle) :
         \E h \in { animate([Handle EXCEPT !.rafPending = @ \ {id}], rnd) } :
           h.ticks <= MaxTicks /\ Install(h)

\* Mutant: the visibilitychange listener stops the system when the page is
\* hidden and does nothing when it is shown.
VisibilityChangeHideOnly ==
  /\ "visibilitychange" \in listeners
  /\ docHidden' = ~docHidden
  /\ IF docHidden' THEN Install(stop(Handle)) ELSE Install(Handle)
  /\ pristine' = FALSE
  /\ UNCHANGED << created, resizeTimeout, timers, isIntersecting >>

\* document's visibilitychange listener.
VisibilityChange ==
  /\ "visibilitychange" \in listeners
  /\ docHidden' = ~docHidden
  /\ IF docHidden'
     THEN Install(stop(Handle))
     ELSE \E rnd \in (IF isRunning THEN {<< >>} ELSE TickLists(Handle)) :
            LET h == start(Handle, rnd)
            IN  h.ticks <= MaxTicks /\ Install(h)
  /\ pristine' = FALSE
  /\ UNCHANGED << created, resizeTimeout, timers, isIntersecting >>

\* The entry lists one IntersectionObserver callback may receive.
EntryLists == UNION { [1 .. n -> BOOLEAN] : n \in 1 .. MaxEntries }

\* The IntersectionObserver callback.
Intersection ==
  /\ "intersection" \in listeners
  /\ \E entries \in EntryLists :
       \E rnds \in [1 .. StartsIn(isRunning, entries) -> TickLists(Handle)] :
         LET h == observe(Handle, entries, rnds)
         IN  /\ h.ticks <= MaxTicks
             /\ Install(h)
             /\ isIntersecting' = Some(entries[Len(entries)])
             /\ pristine' = FALSE
             /\ UNCHANGED << created, resizeTimeout, timers, docHidden >>

\* Mutant: the pending timer is not cleared.
ClearTimeoutNone(active, handle) == active

\* clearTimeout(handle)
ClearTimeout(active, handle) ==
  IF handle = Null THEN active ELSE active \ {Val(handle)}

\* The id setTimeout returns: a positive integer that names no active timer.
NewTimerId(active) ==
  CHOOSE n \in 1 .. (Cardinality(active) + 1) :
    n \notin active /\ \A m \in 1 .. (n - 1) : m \in active

\* window's resize listener: the debounce timer is cleared and set again.
WindowResize ==
  LET cleared == ClearTimeout(timers, resizeTimeout)
      id == NewTimerId(cleared)
  IN  /\ "resize" \in listeners
      /\ timers' = cleared \cup {id}
      /\ resizeTimeout' = Some(id)
      /\ pristine' = FALSE
      /\ UNCHANGED << options, particles, animationId, isRunning, mouse, width,
                      height, rafPending, rafNext, ticks, frame, canvas,
                      listeners, raised, created, docHidden, isIntersecting >>

\* The debounce timer fires: this.resize(); this.createParticles().
ResizeTimeout ==
  \E id \in timers :
    \E h \in { createParticles(resize(Handle, rect), seeds) :
                 rect \in RectSizes, seeds \in SeedLists(options) } :
      /\ timers' = timers \ {id}
      /\ Install(h)
      /\ pristine' = FALSE
      /\ UNCHANGED << created, resizeTimeout, docHidden, isIntersecting >>

\* Mutant: the mousemove listener drops the sample while the system is Stopped.
MouseMoveRunningOnly ==
  /\ "mousemove" \in listeners
  /\ isRunning
  /\ \E cx \in MouseCoords, cy \in MouseCoords :
       Install([Handle EXCEPT !.mouse.x = Some(cx), !.mouse.y = Some(cy)])
  /\ pristine' = FALSE
  /\ UNCHANGED envVars

\* canvas' mousemove listener, bound when options.mouseInteraction.
MouseMove ==
  /\ "mousemove" \in listeners
  /\ \E cx \in MouseCoords, cy \in MouseCoords :
       Install([Handle EXCEPT !.mouse.x = Some(cx), !.mouse.y = Some(cy)])
  /\ pristine' = FALSE
  /\ UNCHANGED envVars

\* Mutant: the mouseleave listener clears mouse.x only.
MouseLeaveXOnly ==
  /\ "mouseleave" \in listeners
  /\ Install([Handle EXCEPT !.mouse.x = Null])
  /\ pristine' = FALSE
  /\ UNCHANGED envVars

\* canvas' mouseleave listener, bound when options.mouseInteraction.
MouseLeave ==
  /\ "mouseleave" \in listeners
  /\ Install([Handle EXCEPT !.mouse.x = Null, !.mouse.y = Null])
  /\ pristine' = FALSE
  /\ UNCHANGED envVars

\* A caller's start() on the handle.
CallStart ==
  /\ created
  /\ \E rnd \in (IF isRunning THEN {<< >>} ELSE TickLists(Handle)) :
       LET h == start(Handle, rnd)
       IN  /\ h.ticks <= MaxTicks
           /\ Install(h)
           /\ pristine' = FALSE
           /\ UNCHANGED envVars

\* A caller's stop() on the handle.
CallStop ==
  /\ created
  /\ Install(stop(Handle))
  /\ pristine' = FALSE
  /\ UNCHANGED envVars

Next ==
  \/ FrameCallback
  \/ VisibilityChange
  \/ Intersection
  \/ WindowResize
  \/ ResizeTimeout
  \/ MouseMove
  \/ MouseLeave
  \/ CallStart
  \/ CallStop

Spec == Init /\ [][Next]_vars

\* The behaviours in which no caller stops the system: the host's events
\* and start() only.
SignalNext ==
  \/ FrameCallback
  \/ VisibilityChange
  \/ Intersection
  \/ WindowResize
  \/ ResizeTimeout
  \/ MouseMove
  \/ MouseLeave
  \/ CallStart

SignalSpec == Init /\ [][SignalNext]_vars

\* The systems configured with speed 0: their particles move only under the
\* pointer's force.  The lifecycle reads no particle, so the behaviours with
\* fairness are explored from these initial states.
StillInit == Init /\ options.speed = 0

\* The host runs a requested frame callback unless it is cancelled first.
FairSpec == StillInit /\ [][Next]_vars /\ WF_vars(FrameCallback)

\* ------------------------------------------------------------------- hosts
\* The systems of any element, on hosts with and without
\* IntersectionObserver, and the methods a caller may invoke on the handle
\* it holds.
HostBags == { bag \in OptionBags : bag.speed = 0 }

\* new ParticleSystem(canvasId, bag): the constructor has returned the
\* handle unless it raised.
HostInit ==
  \E cv \in Canvases, observerApi \in BOOLEAN, bag \in HostBags,
     rect \in RectSizes :
    \E seeds \in SeedLists(SpreadOptions(bag)) :
      \E rnd \in [1 .. Len(seeds) -> TickDraws] :
        LET h == ParticleSystem(cv, bag, rect, seeds, rnd, observerApi)
        IN  /\ options = h.options
            /\ particles = h.particles
            /\ animationId = h.animationId
            /\ isRunning = h.isRunning
            /\ mouse = h.mouse
            /\ width = h.width
            /\ height = h.height
            /\ rafPending = h.rafPending
            /\ rafNext = h.rafNext
            /\ ticks = h.ticks
            /\ frame = h.frame
            /\ canvas = h.canvas
            /\ listeners = h.listeners
            /\ raised = h.raised
            /\ created = (h.raised = {})
            /\ resizeTimeout = Null
            /\ timers = {}
            /\ docHidden \in BOOLEAN
            /\ isIntersecting = Null
            /\ pristine = TRUE

\* A caller's resize() on the handle.
CallResize ==
  /\ created
  /\ \E rect \in RectSizes : Install(resize(Handle, rect))
  /\ pristine' = FALSE
  /\ UNCHANGED envVars

\* A caller's createParticles() on the handle.
CallCreateParticles ==
  /\ created
  /\ \E seeds \in SeedLists(options) : Install(createParticles(Handle, seeds))
  /\ pristine' = FALSE
  /\ UNCHANGED envVars

\* A caller's animate() on the handle.
CallAnimate ==
  /\ created
  /\ \E rnd \in TickLists(Handle) :
       \E h \in { animate(Handle, rnd) } :
         h.ticks <= MaxTicks /\ Install(h)
  /\ pristine' = FALSE
  /\ UNCHANGED envVars

HostNext ==
  \/ Next
  \/ CallResize
  \/ CallCreateParticles
  \/ CallAnimate

HostSpec == HostInit /\ [][HostNext]_vars

\* ----------------------------------------------------------------- benches
\* Particle.update's pointer block, Particle.update and connectParticles
\* are functions of the handle they run on.  Each is exercised on its own
\* from handles whose particles, pointer sample, canvas and options are
\* drawn from the sets below (lengths in units): the function is applied
\* once to the handle, which no event has touched yet.

\* The state holds handle h and an idle environment.
Bench(h) ==
  /\ options = h.options
  /\ particles = h.particles
  /\ animationId = h.animationId
  /\ isRunning = h.isRunning
  /\ mouse = h.mouse
  /\ width = h.width
  /\ height = h.height
  /\ rafPending = h.rafPending
  /\ rafNext = h.rafNext
  /\ ticks = h.ticks
  /\ frame = h.frame
  /\ canvas = h.canvas
  /\ listeners = h.listeners
  /\ raised = h.raised
  /\ created = TRUE
  /\ resizeTimeout = Null
  /\ timers = {}
  /\ docHidden = FALSE
  /\ isIntersecting = Null
  /\ pristine = TRUE

\* A particle at (x, y) with velocity (vx, vy) and its seeded radius rad.
Placed(x, y, vx, vy, rad) ==
  [x |-> x, y |-> y, vx |-> vx, vy |-> vy, radius |-> rad, originalRadius |-> rad]

\* The handle of a system of the particles ps on a w x h canvas, configured
\* with bag, its pointer sample at m (Null, or <<x, y>>).
Staged(bag, w, h, ps, m) ==
  LET f == Fresh(bag)
  IN  [f EXCEPT !.width = w, !.height = h, !.particles = ps,
                !.mouse = [x |-> IF m = Null THEN Null ELSE Some(m[1]),
                           y |-> IF m = Null THEN Null ELSE Some(m[2]),
                           radius |-> f.mouse.radius]]

\* What a bench step leaves alone.
benchRest == << options, animationId, isRunning, mouse, width, height,
                rafPending, rafNext, ticks, canvas, listeners, raised, created,
                resizeTimeout, timers, docHidden, isIntersecting >>

\* --- the pointer block
PointerRadii == {100, 4000}
PointerSeats == {0, 60, 100, 3000, 4000}
PointerSamples == {<<0, 0>>, <<60, 0>>, <<0, 4000>>}
PointerVelocities == {-10, 0, 10}
SeededRadii == {Scale, 3 * Scale}

PointerInit ==
  \E R \in PointerRadii, px \in PointerSeats, py \in PointerSeats,
     m \in PointerSamples, v \in PointerVelocities, rad \in SeededRadii :
    Bench(Staged([particleCount |-> 1, mouseRadius |-> R],
                 4000, 4000, << Placed(px, py, v, -v, rad) >>, m))

\* The pointer block of update runs on every particle.
PointerStep ==
  /\ pristine
  /\ particles' = [i \in 1 .. Len(particles) |->
                     PointerForce(particles[i], mouse, options)]
  /\ pristine' = FALSE
  /\ UNCHANGED << benchRest, frame >>

PointerSpec == PointerInit /\ [][PointerStep]_vars

\* --- Particle.update
UpdateSpeeds == {10, 40}
UpdateSeats == {0, 30, 100}
UpdateVelocities == {-80, -60, -1, 0, 1, 5, 79}
UpdateSamples == {Null, <<30, 30>>}

UpdateInit ==
  \E sp \in UpdateSpeeds, px \in UpdateSeats, py \in UpdateSeats,
     vx \in UpdateVelocities, vy \in UpdateVelocities, m \in UpdateSamples :
    /\ Abs(vx) <= sp * MaxSpeedFactor /\ Abs(vy) <= sp * MaxSpeedFactor
    /\ Bench(Staged([particleCount |-> 1, speed |-> sp, mouseRadius |-> 60],
                    100, 100, << Placed(px, py, vx, vy, Scale) >>, m))

\* update() runs on every particle, with draws rnd.
UpdateStep ==
  /\ pristine
  /\ \E rnd \in TickLists(Handle) :
       particles' = [i \in 1 .. Len(particles) |->
                       update(particles[i], mouse, options, width, height, rnd[i])]
  /\ pristine' = FALSE
  /\ UNCHANGED << benchRest, frame >>

UpdateSpec == UpdateInit /\ [][UpdateStep]_vars

\* --- connectParticles
EdgeLineDistances == {40 * Scale, 150 * Scale}
EdgeSeats == {0, 50 * Scale, 90 * Scale, 140 * Scale, 150 * Scale}
EdgeRows == {0, 120 * Scale}

\* The lineColor a caller passes: none, a colour with an alpha channel, one
\* in rgb() notation, a named colour.
EdgeLineColors ==
  { << >> } \cup
  { [lineColor |-> c] :
      c \in { << "r", "g", "b", "a", "(", "9", ",", "9", ",", "9", ",", ".", "5", ")" >>,
              << "r", "g", "b", "(", "9", ",", "9", ",", "4", "3", ")" >>,
              << "r", "e", "d" >> } }

EdgeInit ==
  \E L \in EdgeLineDistances, xa \in EdgeSeats, xb \in EdgeSeats,
     xc \in EdgeSeats, yc \in EdgeRows, lc \in EdgeLineColors :
    Bench(Staged([particleCount |-> 3, lineDistance |-> L] @@ lc,
                 200 * Scale, 200 * Scale,
                 << Placed(xa, 0, 0, 0, Scale), Placed(xb, 0, 0, 0, Scale),
                    Placed(xc, yc, 0, 0, Scale) >>, Null))

\* connectParticles() strokes the lines of the collection.
ConnectStep ==
  /\ pristine
  /\ frame' = connectParticles(particles, options)
  /\ pristine' = FALSE
  /\ UNCHANGED << benchRest, particles >>

EdgeSpec == EdgeInit /\ [][ConnectStep]_vars

\* --- animate
FrameSeats == {60, 200}
\* The collections a frame callback may find: up to three particles, at
\* rest, some of them nearer to each other than lineDistance.
FrameCollections ==
  { << >>, << Placed(0, 0, 0, 0, Scale) >> } \cup
  { << Placed(0, 0, 0, 0, Scale), Placed(xb, 0, 0, 0, Scale) >> :
      xb \in FrameSeats } \cup
  { << Placed(0, 0, 0, 0, Scale), Placed(xb, 0, 0, 0, Scale),
       Placed(60, 80, 0, 0, Scale) >> : xb \in FrameSeats }

\* A Running handle whose frame callback is pending; the larger collections
\* have one tick left to run.
FrameInit ==
  \E sw \in SwitchBags, ps \in FrameCollections :
    Bench([bindEvents(Staged([particleCount |-> Len(ps), speed |-> 10,
                              lineDistance |-> 101, mouseRadius |-> 100] @@ sw,
                             200, 200, ps, Null), TRUE)
             EXCEPT !.isRunning = TRUE, !.animationId = Some(1),
                    !.rafPending = {1}, !.rafNext = 2,
                    !.ticks = IF Len(ps) = 3 THEN MaxTicks - 1 ELSE 1])

\* The frame callback and the pointer events between the frames.
FrameNext == FrameCallback \/ MouseMove \/ MouseLeave

FrameSpec == FrameInit /\ [][FrameNext]_vars

\* --- createParticles
SeedSpeeds == {0, 2, 20}
SeedRadii == {0, 60}
SeedSizes == { <<0, 0>>, <<1, 200>>, <<200, 100>> }
SeedCounts == {1, 2}
\* The list createParticles finds: empty in the constructor, the particles
\* of the previous size on a reseed.
SeedFound == { << >>, << Placed(900, 900, 70, -70, 5 * Scale) >> }

SeedInit ==
  \E n \in SeedCounts, sp \in SeedSpeeds, pr \in SeedRadii, sz \in SeedSizes,
     ps \in SeedFound :
    Bench(Staged([particleCount |-> n, speed |-> sp, particleRadius |-> pr],
                 sz[1], sz[2], ps, Null))

\* createParticles() runs, with draws seeds.
SeedStep ==
  /\ pristine
  /\ \E seeds \in SeedLists(options) :
       particles' = createParticles(Handle, seeds).particles
  /\ pristine' = FALSE
  /\ UNCHANGED << benchRest, frame >>

SeedSpec == SeedInit /\ [][SeedStep]_vars

\* ------------------------------------------------------------------ claims
ParticleIdx == 1 .. Len(particles)

\* C1: after any sequence of seeds, ticks, pointer events, lifecycle events
\* and debounced resize+reseed, every particle lies on the canvas:
\* 0 <= x <= width and 0 <= y <= height for the current width and height.
C1_ParticlesOnCanvas ==
  \A i \in ParticleIdx :
    /\ 0 <= particles[i].x /\ particles[i].x <= width
    /\ 0 <= particles[i].y /\ particles[i].y <= height

\* Right after construction (one tick, no pointer) a particle sits on the
\* left edge moving right: seeds and jitter never give a positive velocity,
\* so the boundary collision has clamped and reflected it.
C1_Witness ==
  /\ pristine /\ width > 0
  /\ \E i \in ParticleIdx : particles[i].x = 0 /\ particles[i].vx > 0

\* C2: for speed >= 0, at seed time and after every Particle.update each
\* velocity component is within [-2 * speed, 2 * speed].
C2_VelocityClamped ==
  options.speed >= 0 =>
    \A i \in ParticleIdx :
      /\ Abs(particles[i].vx) <= MaxSpeedFactor * options.speed
      /\ Abs(particles[i].vy) <= MaxSpeedFactor * options.speed

\* A reflected particle at the speed limit: on the left edge with
\* vx = 2 * speed > 0.
C2_Witness ==
  /\ options.speed > 0
  /\ \E i \in ParticleIdx :
       particles[i].x = 0 /\ particles[i].vx = MaxSpeedFactor * options.speed

\* C3: no visibilitychange or intersection event moves a Stopped handle to
\* Running while the page is hidden or the surface was last reported out
\* of the viewport.
C3_StartOnlyVisibleAndIntersecting ==
  [][ (~isRunning /\ isRunning' /\ (VisibilityChange \/ Intersection))
        => (~docHidden' /\ isIntersecting' # Some(FALSE)) ]_vars

\* The page became hidden; the observer's last entry says the surface left
\* the viewport.
PageHidden == docHidden' /\ VisibilityChange
SurfaceLeft == isIntersecting' = Some(FALSE) /\ Intersection

\* C4: a Running handle that receives a page-hidden signal, a
\* surface-left-viewport signal or a stop() call becomes Stopped with its
\* pending frame callback cancelled; while Stopped no frame callback is
\* pending, and a tick runs from a Stopped handle only in a start trigger.
C4_StopCancelsPendingTick ==
  /\ [](~isRunning => (rafPending = {} /\ animationId = Null))
  /\ [][ (isRunning /\ isRunning') => ~(PageHidden \/ SurfaceLeft \/ CallStop) ]_vars
  /\ [][ (isRunning /\ ~isRunning') => (rafPending' = {} /\ animationId' = Null) ]_vars
  /\ [][ (~isRunning /\ ticks' # ticks)
           => (~FrameCallback
               /\ (CallStart \/ (~docHidden' /\ VisibilityChange) \/ Intersection)) ]_vars

\* A handle stopped by the page being hidden: it was Running with a frame
\* callback pending since its construction.
C4_Witness ==
  ~isRunning /\ docHidden /\ rafPending = {} /\ animationId = Null /\ rafNext > 1

\* C5: a Stopped handle that receives an intersection event whose (last)
\* entry is intersecting, while the page is visible, becomes Running: a tick
\* has executed and exactly one next tick is scheduled.
C5_IntersectionStarts ==
  [][ (~isRunning /\ ~docHidden /\ isIntersecting' = Some(TRUE) /\ Intersection)
        => (/\ isRunning'
            /\ ticks' > ticks
            /\ animationId' # Null
            /\ rafPending' = {Val(animationId')}) ]_vars

\* Running on a visible page after the observer reported the surface
\* intersecting, with every tick the bound allows executed and one pending.
C5_Witness ==
  /\ isRunning /\ ~docHidden /\ isIntersecting = Some(TRUE)
  /\ ticks = MaxTicks /\ Cardinality(rafPending) = 1

\* C6: at most one frame callback is pending at any time, it is the one the
\* handle holds, and every tick run so far has requested exactly one (no
\* second chain of callbacks exists).
C6_SingleTickChain ==
  /\ Cardinality(rafPending) <= 1
  /\ rafPending # {} =>
       (isRunning /\ animationId # Null /\ rafPending = {Val(animationId)})
  /\ rafNext = ticks + 1

\* Running again after a stop (the observer's last entry stopped the
\* handle), with a single callback pending.
C6_Witness ==
  isRunning /\ isIntersecting = Some(FALSE) /\ Cardinality(rafPending) = 1

\* C7 as claimed: right after construction the handle is Stopped, and no
\* tick has executed or been scheduled.
C7_InitiallyStopped ==
  pristine => (~isRunning /\ ticks = 0 /\ rafPending = {})

\* C7 amended: right after construction the handle is Running: init() has
\* called start(), one tick has executed and the next is scheduled.
C7_InitiallyRunning ==
  pristine =>
    (isRunning /\ ticks = 1 /\ animationId # Null /\ rafPending = {Val(animationId)})

\* A freshly constructed handle whose first tick has cleared the canvas and
\* moved a particle.
C7_Witness ==
  pristine /\ Len(particles) > 0 /\ frame # << >> /\ frame[1].op = "clearRect"

\* C8 as claimed: a Stopped-to-Running transition executes no tick in the
\* handler; it only schedules the first tick.
C8_FirstTickDeferred ==
  [][ (~isRunning /\ isRunning')
        => (ticks' = ticks /\ Cardinality(rafPending') = 1) ]_vars

\* C8 amended: a Stopped-to-Running transition executes the first tick
\* synchronously inside the handler and schedules the second one.
C8_FirstTickSynchronous ==
  [][ (~isRunning /\ isRunning')
        => (/\ ticks' > ticks
            /\ animationId' # Null
            /\ rafPending' = {Val(animationId')}) ]_vars

\* Running although the observer's last entry stopped the handle: a later
\* start() has moved it from Stopped to Running, and its tick has run.
C8_Witness ==
  isRunning /\ isIntersecting = Some(FALSE) /\ ticks > 1

\* C9: every executed tick that leaves the handle Running has requested
\* exactly one new frame callback, the only one pending; and under fairness
\* of the frame callback a Running handle executes another tick unless it
\* is stopped (up to the MaxTicks ticks a behaviour may hold).
C9_TickChainContinues ==
  /\ [][ (ticks' > ticks /\ isRunning')
           => (/\ animationId' # Null
               /\ Val(animationId') = rafNext' - 1
               /\ Val(animationId') \notin rafPending
               /\ rafPending' = {Val(animationId')}) ]_vars
  /\ \A n \in 1 .. (MaxTicks - 1) :
       (isRunning /\ ticks = n) ~> (~isRunning \/ ticks > n)

\* A handle no lifecycle signal has touched has run every tick the bound
\* allows and holds the next callback.
C9_Witness ==
  /\ isRunning /\ ticks = MaxTicks /\ isIntersecting = Null
  /\ rafPending = {MaxTicks}

\* The canvas shows no arc and no line.
NothingDrawn == \A k \in 1 .. Len(frame) : frame[k].op = "clearRect"

\* C10: the collection's size equals the configured particleCount, which is
\* the bag's own value (0 included, never the default); with 0 particles a
\* tick draws no particle and no edge.
C10_SeededCount ==
  /\ Len(particles) = options.particleCount
  /\ options.particleCount \in 0 .. MaxCount
  /\ options.particleCount = 0 => (particles = << >> /\ NothingDrawn)

\* particleCount 0: ticks have run on the empty collection and only cleared
\* the canvas.
C10_Witness ==
  /\ options.particleCount = 0 /\ particles = << >>
  /\ ticks > 1 /\ frame = << [op |-> "clearRect"] >>

\* The debounce timer fires: the only step that removes a timer.
ReseedStep == timers' # timers /\ timers' \subseteq timers

\* p is a particle as its constructor leaves it on a w x h canvas: at a
\* random place on the canvas, its velocity components random within
\* speed / 2 of 0, its radius 1 plus a random share of particleRadius and
\* equal to its originalRadius.
NewlyBuilt(p, w, h) ==
  /\ \E k \in Randoms : p.x = RoundDiv(k * w, RandDen)
  /\ \E k \in Randoms : p.y = RoundDiv(k * h, RandDen)
  /\ \E k \in Randoms : p.vx = SeedVelocity(k, options.speed)
  /\ \E k \in Randoms : p.vy = SeedVelocity(k, options.speed)
  /\ \E k \in Randoms :
       p.radius = RoundDiv(k * options.particleRadius, RandDen) + Scale
  /\ p.originalRadius = p.radius

\* C11: the debounce callback re-measures and reseeds in one step: no tick
\* runs in it, every particle it leaves is a newly constructed one on the
\* re-measured canvas (none of the previous collection remains), their
\* number is particleCount, and every state, hence every tick, sees a
\* collection of exactly particleCount particles.
C11_ReseedReplacesAtomically ==
  /\ [](Len(particles) = SeedLoopCount(options.particleCount))
  /\ [][ ReseedStep =>
           /\ ticks' = ticks
           /\ options' = options
           /\ \E rect \in RectSizes :
                width' = rect[1] * Scale /\ height' = rect[2] * Scale
           /\ Len(particles') = options.particleCount
           /\ \A i \in 1 .. Len(particles') : NewlyBuilt(particles'[i], width', height') ]_vars

\* Ticks had moved the collection; the canvas is now blank, as resize()
\* leaves it, and holds a collection no tick has drawn yet.
C11_Witness ==
  frame = << >> /\ ticks > 1 /\ particles # << >>

\* C12: a resize signal and the debounce callback (the only steps that
\* change the timers or the debounce handle) leave the running flag, the
\* frame-callback handle and the pending frame callbacks as they were, and
\* run no tick.
C12_ResizeKeepsLifecycle ==
  [][ (timers' # timers \/ resizeTimeout' # resizeTimeout)
        => (/\ isRunning' = isRunning
            /\ animationId' = animationId
            /\ rafPending' = rafPending
            /\ ticks' = ticks) ]_vars

\* A Running handle just reseeded: the canvas is blank and its one frame
\* callback is still pending.
C12_Witness ==
  /\ frame = << >> /\ timers = {} /\ resizeTimeout # Null
  /\ isRunning /\ animationId # Null /\ rafPending = {Val(animationId)}

\* C13: at most one debounce timer is pending, and it is the one the last
\* resize signal set; when it fires none is left, so the signals since the
\* previous reseed cause one resize+reseed, after the last of them.
C13_DebounceResetNotStacked ==
  /\ [](/\ Cardinality(timers) <= 1
        /\ timers # {} => (resizeTimeout # Null /\ timers = {Val(resizeTimeout)}))
  /\ [][ ReseedStep => (timers = {Val(resizeTimeout)} /\ timers' = {}) ]_vars

\* A reseed has happened and a later resize signal has set the timer again.
C13_Witness ==
  /\ timers # {} /\ resizeTimeout # Null /\ frame = << >> /\ ticks > 1

\* Math.sqrt(dx * dx + dy * dy) of particle p and the pointer sample m.
PointerDistance(p, m) ==
  ISqrt((p.x - Val(m.x)) * (p.x - Val(m.x)) + (p.y - Val(m.y)) * (p.y - Val(m.y)))

\* C14: after a tick every particle's radius is its originalRadius, unless
\* the pointer was present in that tick and the particle was nearer to it
\* than mouseRadius; so the tick after the pointer has left restores every
\* radius.
C14_RadiusRestoredAfterTick ==
  [][ (ticks' = ticks + 1) =>
        \A i \in 1 .. Len(particles') :
          \/ particles'[i].radius = particles'[i].originalRadius
          \/ /\ mouse.x # Null
             /\ PointerDistance(particles[i], mouse) < mouse.radius ]_vars

\* The pointer samples PointerState may hold on the current canvas.
PointerStates ==
  { [x |-> Null, y |-> Null, radius |-> mouse.radius] } \cup
  { [x |-> Some(cx), y |-> Some(cy), radius |-> mouse.radius] :
      cx \in MouseCoords \cup {0, width}, cy \in MouseCoords \cup {0, height} }

\* C15: with mouseInteraction disabled no pointer event reaches the handle
\* (PointerState stays absent), and the tick of every particle is the same
\* whatever PointerState holds: position, velocity and radius after update
\* do not depend on the pointer sample.  Two runs from one seeded state with
\* the same draws therefore agree after every tick, whatever pointer events
\* each has seen.
C15_PointerUnobservable ==
  ~options.mouseInteraction =>
    /\ mouse.x = Null /\ mouse.y = Null
    /\ \A i \in ParticleIdx, r \in TickDraws, m \in PointerStates :
         update(particles[i], m, options, width, height, r)
           = update(particles[i], mouse, options, width, height, r)

\* Interaction is off and the particle has been through every tick the
\* bound allows.
C15_Witness ==
  ~options.mouseInteraction /\ particles # << >> /\ ticks = MaxTicks

\* C16: in the pointer block, with mouseInteraction enabled and the pointer
\* present, a particle at distance d < mouseRadius gets force
\* (mouseRadius - d) / mouseRadius in (0, 1], its velocity grows by
\* force * 0.5 along the direction from the pointer to the particle
\* (components force * 0.5 * dx / d and force * 0.5 * dy / d; at d = 0 an
\* increment of length 0.5), and its radius becomes
\* originalRadius * (1 + force); at d >= mouseRadius its velocity is left
\* alone.
C16_PointerRepulsion ==
  [][ (pristine /\ ~pristine' /\ mouse.x # Null /\ options.mouseInteraction) =>
        \A i \in 1 .. Len(particles) :
          LET p  == particles[i]
              q  == particles'[i]
              R  == mouse.radius
              dx == p.x - Val(mouse.x)
              dy == p.y - Val(mouse.y)
              d  == PointerDistance(p, mouse)
          IN  IF d < R
              THEN /\ 0 < R - d /\ R - d <= R
                   /\ IF d = 0
                      THEN (q.vx - p.vx) * (q.vx - p.vx) + (q.vy - p.vy) * (q.vy - p.vy)
                             = (Scale \div 2) * (Scale \div 2)
                      ELSE /\ q.vx - p.vx = RoundDiv(dx * (R - d) * Scale, d * R * 2)
                           /\ q.vy - p.vy = RoundDiv(dy * (R - d) * Scale, d * R * 2)
                           /\ (q.vx - p.vx) * dx >= 0
                           /\ (q.vy - p.vy) * dy >= 0
                   /\ q.radius = RoundDiv(p.originalRadius * (R + (R - d)), R)
              ELSE q.vx = p.vx /\ q.vy = p.vy ]_vars

\* The pointer block has pushed a particle that moved at 10 to the right
\* further right and has inflated it.
C16_Witness ==
  /\ ~pristine /\ mouse.x # Null
  /\ particles[1].vx > 10 /\ particles[1].radius > particles[1].originalRadius

\* C17: update equals the composition, in this order, of the pointer force,
\* the position integration (by the velocity the pointer force has left),
\* the damping by 0.99, the jitter (within 0.05 of 0), the clamp of each
\* component to [-2 * speed, 2 * speed] and the boundary reflection.
C17_UpdateOrder ==
  [][ (pristine /\ ~pristine') =>
        \A i \in 1 .. Len(particles) :
          \E r \in TickDraws :
            LET s1 == PointerForce(particles[i], mouse, options)
                s2 == [s1 EXCEPT !.x = s1.x + s1.vx, !.y = s1.y + s1.vy]
                s3 == [s2 EXCEPT !.vx = Damp(s2.vx), !.vy = Damp(s2.vy)]
                s4 == [s3 EXCEPT !.vx = s3.vx + Jitter(r[1]),
                                 !.vy = s3.vy + Jitter(r[2])]
                m  == 2 * options.speed
                s5 == [s4 EXCEPT !.vx = Max(-m, Min(m, s4.vx)),
                                 !.vy = Max(-m, Min(m, s4.vy))]
                ox == s5.x < 0 \/ s5.x > width
                oy == s5.y < 0 \/ s5.y > height
                s6 == [s5 EXCEPT
                         !.x  = IF ox THEN Max(0, Min(width, s5.x)) ELSE s5.x,
                         !.vx = IF ox THEN -s5.vx ELSE s5.vx,
                         !.y  = IF oy THEN Max(0, Min(height, s5.y)) ELSE s5.y,
                         !.vy = IF oy THEN -s5.vy ELSE s5.vy]
            IN  /\ 20 * Abs(Jitter(r[1])) <= Scale
                /\ 20 * Abs(Jitter(r[2])) <= Scale
                /\ particles'[i] = s6 ]_vars

\* A fast particle at the right wall, the pointer present: update has put
\* it back on the wall and turned its damped velocity round.
C17_Witness ==
  /\ ~pristine /\ mouse.x # Null
  /\ particles[1].x = width /\ particles[1].vx < -60

\* The pairs the proximity pass visits, and their distances.
ParticlePairs == { pr \in ParticleIdx \X ParticleIdx : pr[1] < pr[2] }
PairDistance(pr) == Distance(particles[pr[1]], particles[pr[2]])
\* The lines on the canvas that join pair pr.
EdgesOf(pr) ==
  { k \in 1 .. Len(frame) :
      frame[k].op = "line" /\ frame[k].i = pr[1] /\ frame[k].j = pr[2] }

\* C18: connectParticles emits one edge for every pair at distance
\* d < lineDistance, with opacity (1 - d / lineDistance) * 0.8 (thousandths),
\* in (0, 0.8] and strictly smaller for a pair further apart; a pair at
\* d >= lineDistance, d = lineDistance included, gets no edge; and it emits
\* nothing else.
C18_EdgeThresholdAndOpacity ==
  ~pristine =>
    LET L == options.lineDistance
    IN  /\ \A pr \in ParticlePairs :
             IF PairDistance(pr) < L
             THEN /\ Cardinality(EdgesOf(pr)) = 1
                  /\ \A k \in EdgesOf(pr) :
                       /\ frame[k].opacity = RoundDiv((L - PairDistance(pr)) * 800, L)
                       /\ 0 < frame[k].opacity /\ frame[k].opacity <= 800
             ELSE EdgesOf(pr) = {}
        /\ \A k \in 1 .. Len(frame) : \E pr \in ParticlePairs : k \in EdgesOf(pr)
        /\ \A pr \in ParticlePairs, qr \in ParticlePairs :
             (PairDistance(pr) < PairDistance(qr) /\ PairDistance(qr) < L) =>
               \A k \in EdgesOf(pr), l \in EdgesOf(qr) :
                 frame[k].opacity > frame[l].opacity

\* Two edges of different opacity are drawn and the third pair, at exactly
\* lineDistance, has none.
C18_Witness ==
  /\ ~pristine /\ Len(frame) = 2 /\ frame[1].opacity # frame[2].opacity
  /\ \E pr \in ParticlePairs : PairDistance(pr) = options.lineDistance

\* Three particles on one line at pairwise distances 50, 90 and 140 pixels.
Collinear50_90_140 ==
  /\ Len(particles) = 3
  /\ particles[1].y = particles[2].y /\ particles[2].y = particles[3].y
  /\ { PairDistance(pr) : pr \in ParticlePairs } = {50 * Scale, 90 * Scale, 140 * Scale}

\* The opacity, in thousandths, of the edge of the pair at distance d.
OpacityAt(d) ==
  CHOOSE o \in { frame[k].opacity :
                   k \in UNION { EdgesOf(pr) : pr \in { qr \in ParticlePairs :
                                                         PairDistance(qr) = d } } } : TRUE

\* C19 as stated: with lineDistance 150 the three pairs get three edges of
\* opacities 0.747 (distance 50), 0.520 (distance 90) and 0.053 (distance
\* 140).
C19_SpecOpacities ==
  (~pristine /\ Collinear50_90_140 /\ options.lineDistance = 150 * Scale) =>
    /\ Len(frame) = 3
    /\ OpacityAt(50 * Scale) = 747
    /\ OpacityAt(90 * Scale) = 520
    /\ OpacityAt(140 * Scale) = 53

\* C19, amended: the three edges have opacities 0.533 (distance 50), 0.320
\* (distance 90) and 0.053 (distance 140), the values of
\* (1 - d / 150) * 0.8.
C19_FormulaOpacities ==
  (~pristine /\ Collinear50_90_140 /\ options.lineDistance = 150 * Scale) =>
    /\ Len(frame) = 3
    /\ OpacityAt(50 * Scale) = 533
    /\ OpacityAt(90 * Scale) = 320
    /\ OpacityAt(140 * Scale) = 53

\* The three collinear particles under lineDistance 150, their three edges
\* drawn.
C19_Witness ==
  /\ ~pristine /\ Collinear50_90_140 /\ options.lineDistance = 150 * Scale
  /\ Len(frame) = 3

\* C20: when every pair is at distance >= lineDistance connectParticles
\* emits no edge; so the three collinear particles under lineDistance 40.
C20_NoEdgeBeyondLineDistance ==
  ~pristine =>
    /\ (\A pr \in ParticlePairs : PairDistance(pr) >= options.lineDistance)
         => frame = << >>
    /\ (Collinear50_90_140 /\ options.lineDistance = 40 * Scale) => frame = << >>

\* The three collinear particles under lineDistance 40, the pass done.
C20_Witness ==
  /\ ~pristine /\ Collinear50_90_140 /\ options.lineDistance = 40 * Scale
  /\ frame = << >>

\* The lines and the arcs on the canvas, in the order drawn.
IsLine(c) == c.op = "line"
IsArc(c) == c.op = "arc"

\* C21: what a tick draws starts with the clear, which nothing precedes and
\* which is not repeated; every particle disc comes before every edge.
C21_DrawOrder ==
  frame # << >> =>
    /\ frame[1].op = "clearRect"
    /\ \A k \in 2 .. Len(frame) : frame[k].op # "clearRect"
    /\ \A k \in 1 .. Len(frame), l \in 1 .. Len(frame) :
         (k < l /\ IsLine(frame[k])) => IsLine(frame[l])

\* A tick has drawn three discs and at least one edge.
C21_Witness ==
  /\ Len(SelectSeq(frame, IsArc)) = 3
  /\ Len(SelectSeq(frame, IsLine)) >= 1

\* C22: with showParticles false a tick draws no disc, and with
\* showParticles left to its default it draws the disc of every particle,
\* at its place and radius, in order; either way the tick updates every
\* particle and the canvas holds an edge for exactly the pairs nearer than
\* lineDistance.
C22_ShowParticlesGatesDiscsOnly ==
  /\ [](frame # << >> =>
          /\ SelectSeq(frame, IsArc) =
               IF ShowParticles(options)
               THEN [i \in 1 .. Len(particles) |->
                       [op |-> "arc", i |-> i, x |-> particles[i].x,
                        y |-> particles[i].y, radius |-> particles[i].radius]]
               ELSE << >>
          /\ \A pr \in ParticlePairs :
               (PairDistance(pr) < options.lineDistance) <=> (EdgesOf(pr) # {}))
  /\ [][ (ticks' = ticks + 1) =>
           /\ Len(particles') = Len(particles)
           /\ \A i \in 1 .. Len(particles) :
                \E r \in TickDraws :
                  particles'[i] =
                    update(particles[i], mouse, options, width, height, r) ]_vars

\* showParticles is false: the ticks have drawn edges and no disc.
C22_Witness ==
  /\ ~ShowParticles(options) /\ ticks = MaxTicks /\ Len(particles) = 3
  /\ Len(SelectSeq(frame, IsLine)) >= 1 /\ SelectSeq(frame, IsArc) = << >>

\* C27: a tick reads one pointer state and one canvas size: it leaves the
\* pointer state, the canvas size and the options as it found them, every
\* particle it leaves is the update of the particle it found under that
\* pointer state and that size, and the edges it draws are those of the
\* updated particles, all of them.
C27_TickSnapshot ==
  [][ (ticks' = ticks + 1) =>
        /\ mouse' = mouse /\ width' = width /\ height' = height
        /\ options' = options
        /\ DOMAIN particles' = DOMAIN particles
        /\ \A i \in DOMAIN particles :
             particles'[i] \in
               { update(particles[i], mouse, options, width, height, r) :
                   r \in TickDraws }
        /\ SelectSeq(frame', IsLine) = connectParticles(particles', options) ]_vars

\* A tick has run with the pointer over the canvas: it has pushed a
\* particle, which is drawn larger, and drawn edges.
C27_Witness ==
  /\ mouse.x # Null /\ Len(particles) = 3
  /\ \E i \in DOMAIN particles : particles[i].radius > particles[i].originalRadius
  /\ \E k \in DOMAIN frame : IsLine(frame[k])

\* C30: the two loops of connectParticles visit pairs (i, j) of particles
\* with i < j, every such pair and none twice, n(n-1)/2 in all; the canvas
\* holds at most one edge per pair, so at most n(n-1)/2 edges.
C30_EachPairOnce ==
  LET n == Len(particles)
      lp == LoopPairs(n)
  IN  /\ \A k \in DOMAIN lp :
           /\ lp[k][1] \in 1 .. n /\ lp[k][2] \in 1 .. n
           /\ lp[k][1] < lp[k][2]
      /\ \A k \in DOMAIN lp, l \in DOMAIN lp : lp[k] = lp[l] => k = l
      /\ { lp[k] : k \in DOMAIN lp } = ParticlePairs
      /\ 2 * Len(lp) = n * (n - 1)
      /\ \A pr \in ParticlePairs : Cardinality(EdgesOf(pr)) <= 1
      /\ \A k \in DOMAIN frame :
           IsLine(frame[k]) => <<frame[k].i, frame[k].j>> \in ParticlePairs
      /\ 2 * Len(SelectSeq(frame, IsLine)) <= n * (n - 1)

\* Three particles, each nearer to the others than lineDistance: the tick
\* has drawn the three edges.
C30_Witness ==
  /\ Len(particles) = 3
  /\ Len(SelectSeq(frame, IsLine)) = 3

\* C28: every particle createParticles has built, in the constructor or on
\* a reseed, has x in [0, width], y in [0, height], vx and vy in
\* [-speed / 2, speed / 2], radius in [1, particleRadius + 1] (1 px is Scale
\* units) and originalRadius = radius.
C28_SeededWithinRanges ==
  ~pristine =>
    /\ Len(particles) = options.particleCount
    /\ \A i \in DOMAIN particles :
         LET p == particles[i]
         IN  /\ 0 <= p.x /\ p.x <= width
             /\ 0 <= p.y /\ p.y <= height
             /\ -options.speed <= 2 * p.vx /\ 2 * p.vx <= options.speed
             /\ -options.speed <= 2 * p.vy /\ 2 * p.vy <= options.speed
             /\ Scale <= p.radius /\ p.radius <= options.particleRadius + Scale
             /\ p.originalRadius = p.radius

\* A reseed has built two particles, one at the lowest velocity and away
\* from the origin, with a radius above 1.
C28_Witness ==
  /\ ~pristine /\ Len(particles) = 2 /\ options.speed = 20
  /\ particles[1].vx = -10 /\ particles[1].x = 100
  /\ particles[1].radius = 30 + Scale

\* C26: with mouseInteraction enabled a pointer move and a pointer leave
\* are accepted in every state, Running or Stopped, and leave PointerState
\* at the sample (absent after a leave); a step that changes PointerState
\* changes nothing else of the handle: particles, running flag,
\* frame-callback handle, pending frame callbacks, canvas size, canvas and
\* options stay; the tick a restart runs updates the particles with the
\* PointerState of that moment, the latest sample.
C26_PointerEventsOnlySample ==
  /\ [](options.mouseInteraction =>
          /\ \A cx \in MouseCoords, cy \in MouseCoords :
               ENABLED (MouseMove /\ mouse'.x = Some(cx) /\ mouse'.y = Some(cy))
          /\ ENABLED (MouseLeave /\ mouse'.x = Null /\ mouse'.y = Null))
  /\ [][ (mouse' # mouse) =>
           /\ options.mouseInteraction
           /\ particles' = particles /\ isRunning' = isRunning
           /\ animationId' = animationId /\ rafPending' = rafPending
           /\ width' = width /\ height' = height
           /\ ticks' = ticks /\ frame' = frame /\ options' = options ]_vars
  /\ [][ (~isRunning /\ ticks' = ticks + 1) =>
           \A i \in DOMAIN particles' :
             particles'[i] \in
               { update(particles[i], mouse, options, width, height, r) :
                   r \in TickDraws } ]_vars

\* The system is Stopped and the pointer has come within mouseRadius of a
\* particle, which no tick has inflated.
C26_Witness ==
  /\ ~isRunning /\ options.mouseInteraction /\ mouse.x # Null
  /\ \E i \in DOMAIN particles :
       /\ PointerDistance(particles[i], mouse) < mouse.radius
       /\ particles[i].radius = particles[i].originalRadius

\* C29: no step changes an option value; a step other than the reseed of
\* the debounce callback keeps the particles and the originalRadius of each;
\* the reseed replaces them by particleCount particles built from the
\* options of the construction.
C29_ConfigurationImmutable ==
  /\ [][options' = options]_vars
  /\ [][ ~ReseedStep =>
           /\ DOMAIN particles' = DOMAIN particles
           /\ \A i \in DOMAIN particles :
                particles'[i].originalRadius = particles[i].originalRadius ]_vars
  /\ [][ ReseedStep =>
           /\ Len(particles') = SeedLoopCount(options'.particleCount)
           /\ \A i \in DOMAIN particles' :
                NewlyBuilt(particles'[i], width', height') ]_vars

\* Ticks have inflated a particle under the pointer and its originalRadius
\* is the one it was seeded with.
C29_Witness ==
  /\ ticks = MaxTicks
  /\ \E i \in DOMAIN particles :
       /\ particles[i].radius > particles[i].originalRadius
       /\ particles[i].originalRadius = Scale

\* The colour is in a notation with an alpha channel: a fourth component,
\* numeric, before the closing parenthesis.
AlphaChannel(c) ==
  /\ MatchStart(c) # 0
  /\ Cardinality({ k \in DOMAIN c : c[k] = "," }) = 3

\* C25: an edge is stroked in the configured lineColor itself when that
\* colour has no alpha channel (a named colour, an rgb(r, g, b) colour).
C25_ColourWithoutAlphaKept ==
  \A k \in DOMAIN frame :
    (IsLine(frame[k]) /\ ~AlphaChannel(options.lineColor))
      => frame[k].strokeStyle = options.lineColor

\* C23: a handle created for a missing element is inert: its creation and
\* the calls on it (start, stop, resize, createParticles, animate) raise no
\* error, it is never Running, no frame callback is requested, no tick runs
\* and nothing is seeded or drawn.
C23_InertHandleNeverRaises ==
  (canvas = Null) =>
    /\ raised = {}
    /\ ~isRunning /\ animationId = Null /\ rafPending = {}
    /\ ticks = 0 /\ particles = << >> /\ frame = << >>

\* C24: on a host without IntersectionObserver the creation of a system on
\* a canvas raises no error and returns the handle, Running, its first tick
\* run.
C24_CreationSurvivesMissingObserver ==
  (pristine /\ canvas = Some("canvas") /\ "intersection" \notin listeners) =>
    /\ raised = {} /\ created
    /\ isRunning /\ ticks >= 1 /\ rafPending # {}

\* C31: every edge a tick draws joins the places its two particles have
\* after their update in that tick, its opacity is that of their distance
\* there, below lineDistance, and (when discs are drawn) the discs of both
\* were drawn earlier in the tick at those same places.
C31_EdgesFromUpdatedPositions ==
  [][ (ticks' = ticks + 1) =>
        \A k \in DOMAIN frame' :
          IsLine(frame'[k]) =>
            LET e == frame'[k]
                a == particles'[e.i]
                b == particles'[e.j]
            IN  /\ e.x1 = a.x /\ e.y1 = a.y /\ e.x2 = b.x /\ e.y2 = b.y
                /\ Distance(a, b) < options.lineDistance
                /\ e.opacity = EdgeOpacity(Distance(a, b), options.lineDistance)
                /\ ShowParticles(options) =>
                     \A n \in {e.i, e.j} :
                       \E m \in 1 .. (k - 1) :
                         /\ IsArc(frame'[m]) /\ frame'[m].i = n
                         /\ frame'[m].x = particles'[n].x
                         /\ frame'[m].y = particles'[n].y ]_vars

\* A tick has moved a particle from its seat and drawn its disc and an edge
\* to it.
C31_Witness ==
  /\ ShowParticles(options)
  /\ \E k \in DOMAIN frame :
       /\ IsLine(frame[k])
       /\ frame[k].x2 \notin FrameSeats \cup {0}

\* C32: in every state the running flag and the frame callbacks agree: the
\* handle is Running exactly when one frame callback is pending, and
\* Stopped exactly when none is pending and animationId is null.
C32_FlagAgreesWithPending ==
  /\ isRunning <=> (Cardinality(rafPending) = 1)
  /\ (~isRunning) <=> (rafPending = {} /\ animationId = Null)

\* Stopped, with every tick the bound allows run: nothing is pending.
C32_Witness ==
  ~isRunning /\ ticks = MaxTicks /\ rafPending = {} /\ animationId = Null

\* C33: as long as no caller stops the system, it is Running whenever the
\* page is visible and the observer's last entry says the surface
\* intersects the viewport.
C33_RunningWhenVisibleAndIntersecting ==
  (~docHidden /\ isIntersecting = Some(TRUE)) => isRunning

\* The page is visible and the surface intersecting, after events have come
\* and ticks have run: the system is Running.
C33_Witness ==
  /\ ~docHidden /\ isIntersecting = Some(TRUE) /\ isRunning
  /\ ~pristine /\ ticks >= 2

\* C34: start() on a Running handle returns it as it is (no tick, no
\* request, animationId kept), stop() on a Stopped handle returns it as it
\* is, and stop() followed by start() leaves the handle Running with
\* exactly one frame callback pending, the one it holds.
C34_StartStopIdempotent ==
  /\ isRunning => \A rnd \in TickLists(Handle) : start(Handle, rnd) = Handle
  /\ ~isRunning => stop(Handle) = Handle
  /\ \A rnd \in TickLists(Handle) :
       LET h == start(stop(Handle), rnd)
       IN  /\ h.isRunning
           /\ Cardinality(h.rafPending) = 1
           /\ h.rafPending = {Val(h.animationId)}
           /\ h.ticks = ticks + 1
           /\ stop(stop(Handle)) = stop(Handle)
           /\ start(h, rnd) = h

\* A Stopped system that holds a particle and has ticks left to run.
C34_Witness ==
  ~isRunning /\ ~pristine /\ particles # << >> /\ ticks < MaxTicks

\* Where update() has put coordinate `pos` of a particle, moving at `vel`
\* once the pointer block has run, before the boundary collision.
Moved(pos, vel) == pos + vel

\* C35: when the update of a particle has carried it across a boundary, the
\* velocity it leaves on that axis points into the canvas or is zero:
\* vx >= 0 after a crossing of x = 0, vx <= 0 after a crossing of
\* x = width, and likewise vy.
C35_ReflectedVelocityPointsInward ==
  [][ (pristine /\ ~pristine') =>
        \A i \in DOMAIN particles :
          LET f == PointerForce(particles[i], mouse, options)
              q == particles'[i]
          IN  /\ Moved(f.x, f.vx) < 0 => (q.x = 0 /\ q.vx >= 0)
              /\ Moved(f.x, f.vx) > width => (q.x = width /\ q.vx <= 0)
              /\ Moved(f.y, f.vy) < 0 => (q.y = 0 /\ q.vy >= 0)
              /\ Moved(f.y, f.vy) > height => (q.y = height /\ q.vy <= 0) ]_vars

\* C36: one update moves a particle by at most 2 * speed + 0.5 px on each
\* axis: the pointer block adds at most 0.5 px to a velocity component, the
\* position then moves by that velocity, and the boundary collision leaves
\* the particle no further from where it was.
C36_DisplacementBounded ==
  [][ (pristine /\ ~pristine') =>
        \A i \in DOMAIN particles :
          LET p == particles[i]
              f == PointerForce(p, mouse, options)
              q == particles'[i]
              limit == MaxSpeedFactor * options.speed + Scale \div 2
          IN  /\ 2 * Abs(f.vx - p.vx) <= Scale /\ 2 * Abs(f.vy - p.vy) <= Scale
              /\ Abs(q.x - p.x) <= Abs(f.vx) /\ Abs(q.y - p.y) <= Abs(f.vy)
              /\ Abs(q.x - p.x) <= limit /\ Abs(q.y - p.y) <= limit ]_vars

\* The pointer has pushed a particle, which the update has moved from its
\* seat.
C36_Witness ==
  /\ ~pristine /\ mouse.x # Null
  /\ particles[1].radius > particles[1].originalRadius
  /\ particles[1].x \notin UpdateSeats

\* C37: PointerState is absent or present as a whole, mouse.x is null
\* exactly when mouse.y is, so a tick that finds mouse.x present computes
\* the distance from two coordinates; and mouse.radius is the configured
\* mouseRadius.
C37_PointerStateWhole ==
  /\ (mouse.x = Null) <=> (mouse.y = Null)
  /\ mouse.radius = options.mouseRadius

\* The pointer has been over the canvas, where a tick inflated a particle,
\* and has left it.
C37_Witness ==
  /\ mouse.x = Null /\ mouse.y = Null
  /\ \E i \in DOMAIN particles : particles[i].radius > particles[i].originalRadius

====
